---- MODULE Spec2Model ----
(***************************************************************************)
(* Model of md5_core::Md5 (src/src/lib.rs): the word/byte codec, the       *)
(* preprocessor, the compression core and the streaming state.             *)
(*                                                                         *)
(* Number representation.  TLC's integers are 32 bits wide, so the fixed   *)
(* width integers of the program are kept as limbs of 16 bits:             *)
(*   u32          <<hi, lo>>                       (most significant first)*)
(*   u64, usize   <<l0, l1, l2, l3>>               (least significant first)*)
(*   u128         <<w1, ..., w8>>                  (most significant first)*)
(* A byte is a number in 0..255 and a Vec<u8> / &[u8] is a sequence of     *)
(* bytes.  Lengths of the byte sequences that the model really builds are  *)
(* plain numbers; they are converted to limbs where the program computes   *)
(* with them in usize or u64.  usize is 64 bits wide and the target is     *)
(* little-endian (u32::to_be swaps the four bytes).                        *)
(***************************************************************************)
EXTENDS Integers, Sequences, FiniteSets, TLC

(***************************************************************************)
(* Outcome of a call: a value, or a panic (the thread unwinds).            *)
(***************************************************************************)
Ok(v) == [ok |-> TRUE, val |-> v]
Panic == [ok |-> FALSE, val |-> <<>>]

(***************************************************************************)
(* u32 arithmetic (std::num::Wrapping<u32> and the u32 operators).         *)
(***************************************************************************)
\* Bitwise and of two bytes, bit by bit.
And8(x, y) ==
    ((x % 2) * (y % 2))
  + (2 * ((x \div 2) % 2) * ((y \div 2) % 2))
  + (4 * ((x \div 4) % 2) * ((y \div 4) % 2))
  + (8 * ((x \div 8) % 2) * ((y \div 8) % 2))
  + (16 * ((x \div 16) % 2) * ((y \div 16) % 2))
  + (32 * ((x \div 32) % 2) * ((y \div 32) % 2))
  + (64 * ((x \div 64) % 2) * ((y \div 64) % 2))
  + (128 * (x \div 128) * (y \div 128))

\* Bitwise and of two 16-bit limbs, byte by byte.
And16(x, y) ==
  (And8(x \div 256, y \div 256) * 256) + And8(x % 256, y % 256)

BitAnd(x, y) == <<And16(x[1], y[1]), And16(x[2], y[2])>>

BitOr(x, y) ==
  <<x[1] + y[1] - And16(x[1], y[1]), x[2] + y[2] - And16(x[2], y[2])>>

BitXor(x, y) ==
  <<x[1] + y[1] - 2 * And16(x[1], y[1]), x[2] + y[2] - 2 * And16(x[2], y[2])>>

BitNot(x) == <<65535 - x[1], 65535 - x[2]>>

WrappingAdd(x, y) ==
  LET lo == x[2] + y[2]
      hi == x[1] + y[1] + (lo \div 65536)
  IN  <<hi % 65536, lo % 65536>>

rotate_left(x, s) ==
  LET v == IF s % 32 >= 16 THEN <<x[2], x[1]>> ELSE x
      r == s % 16
  IN  IF r = 0 THEN v
      ELSE <<((v[1] * (2 ^ r)) % 65536) + (v[2] \div (2 ^ (16 - r))),
             ((v[2] * (2 ^ r)) % 65536) + (v[1] \div (2 ^ (16 - r)))>>

\* u32::to_be on a little-endian target: the four bytes in reverse order.
to_be(x) ==
  <<((x[2] % 256) * 256) + (x[2] \div 256), ((x[1] % 256) * 256) + (x[1] \div 256)>>

as_u32_le(array) ==
  <<(array[4] * 256) + array[3], (array[2] * 256) + array[1]>>

PRECOMPUTED_TABLE ==
  <<
    <<\Hd76a, \Ha478>>, <<\He8c7, \Hb756>>, <<\H2420, \H70db>>, <<\Hc1bd, \Hceee>>,
    <<\Hf57c, \H0faf>>, <<\H4787, \Hc62a>>, <<\Ha830, \H4613>>, <<\Hfd46, \H9501>>,
    <<\H6980, \H98d8>>, <<\H8b44, \Hf7af>>, <<\Hffff, \H5bb1>>, <<\H895c, \Hd7be>>,
    <<\H6b90, \H1122>>, <<\Hfd98, \H7193>>, <<\Ha679, \H438e>>, <<\H49b4, \H0821>>,
    <<\Hf61e, \H2562>>, <<\Hc040, \Hb340>>, <<\H265e, \H5a51>>, <<\He9b6, \Hc7aa>>,
    <<\Hd62f, \H105d>>, <<\H0244, \H1453>>, <<\Hd8a1, \He681>>, <<\He7d3, \Hfbc8>>,
    <<\H21e1, \Hcde6>>, <<\Hc337, \H07d6>>, <<\Hf4d5, \H0d87>>, <<\H455a, \H14ed>>,
    <<\Ha9e3, \He905>>, <<\Hfcef, \Ha3f8>>, <<\H676f, \H02d9>>, <<\H8d2a, \H4c8a>>,
    <<\Hfffa, \H3942>>, <<\H8771, \Hf681>>, <<\H6d9d, \H6122>>, <<\Hfde5, \H380c>>,
    <<\Ha4be, \Hea44>>, <<\H4bde, \Hcfa9>>, <<\Hf6bb, \H4b60>>, <<\Hbebf, \Hbc70>>,
    <<\H289b, \H7ec6>>, <<\Heaa1, \H27fa>>, <<\Hd4ef, \H3085>>, <<\H0488, \H1d05>>,
    <<\Hd9d4, \Hd039>>, <<\He6db, \H99e5>>, <<\H1fa2, \H7cf8>>, <<\Hc4ac, \H5665>>,
    <<\Hf429, \H2244>>, <<\H432a, \Hff97>>, <<\Hab94, \H23a7>>, <<\Hfc93, \Ha039>>,
    <<\H655b, \H59c3>>, <<\H8f0c, \Hcc92>>, <<\Hffef, \Hf47d>>, <<\H8584, \H5dd1>>,
    <<\H6fa8, \H7e4f>>, <<\Hfe2c, \He6e0>>, <<\Ha301, \H4314>>, <<\H4e08, \H11a1>>,
    <<\Hf753, \H7e82>>, <<\Hbd3a, \Hf235>>, <<\H2ad7, \Hd2bb>>, <<\Heb86, \Hd391>>
  >>

SHIFT_TABLE ==
  <<
    7, 12, 17, 22, 7, 12, 17, 22, 7, 12, 17, 22, 7, 12, 17, 22,
    5, 9, 14, 20, 5, 9, 14, 20, 5, 9, 14, 20, 5, 9, 14, 20,
    4, 11, 16, 23, 4, 11, 16, 23, 4, 11, 16, 23, 4, 11, 16, 23,
    6, 10, 15, 21, 6, 10, 15, 21, 6, 10, 15, 21, 6, 10, 15, 21
  >>

(***************************************************************************)
(* Compression core.                                                       *)
(***************************************************************************)
\* The 16 words m of a 64-byte chunk.
Words(chunk) ==
  <<as_u32_le(SubSeq(chunk, 1, 4)), as_u32_le(SubSeq(chunk, 5, 8)),
    as_u32_le(SubSeq(chunk, 9, 12)), as_u32_le(SubSeq(chunk, 13, 16)),
    as_u32_le(SubSeq(chunk, 17, 20)), as_u32_le(SubSeq(chunk, 21, 24)),
    as_u32_le(SubSeq(chunk, 25, 28)), as_u32_le(SubSeq(chunk, 29, 32)),
    as_u32_le(SubSeq(chunk, 33, 36)), as_u32_le(SubSeq(chunk, 37, 40)),
    as_u32_le(SubSeq(chunk, 41, 44)), as_u32_le(SubSeq(chunk, 45, 48)),
    as_u32_le(SubSeq(chunk, 49, 52)), as_u32_le(SubSeq(chunk, 53, 56)),
    as_u32_le(SubSeq(chunk, 57, 60)), as_u32_le(SubSeq(chunk, 61, 64))>>

\* f and g of step i, before the additions.
StepF(i, b, c, d) ==
  IF i < 16 THEN BitOr(BitAnd(b, c), BitAnd(BitNot(b), d))
  ELSE IF i < 32 THEN BitOr(BitAnd(d, b), BitAnd(BitNot(d), c))
  ELSE IF i < 48 THEN BitXor(BitXor(b, c), d)
  ELSE BitXor(c, BitOr(b, BitNot(d)))

StepG(i) ==
  IF i < 16 THEN i
  ELSE IF i < 32 THEN ((5 * i) + 1) % 16
  ELSE IF i < 48 THEN ((3 * i) + 5) % 16
  ELSE (7 * i) % 16

\* One pass of the body of `for i in 0..64`: r is <<a, b, c, d>> before it.
Step(i, r, m) ==
  LET f == WrappingAdd(StepF(i, r[2], r[3], r[4]),
                   WrappingAdd(WrappingAdd(r[1], m[StepG(i) + 1]),
                               PRECOMPUTED_TABLE[i + 1]))
  IN  <<r[4], WrappingAdd(r[2], rotate_left(f, SHIFT_TABLE[i + 1])), r[2], r[3]>>

\* `for i in 0..64`, entered at step i with the registers r = <<a, b, c, d>>:
\* the registers after the loop.
StepLoop[i \in 0..64, r \in Seq(Seq(Nat)), m \in Seq(Seq(Nat))] ==
  IF i = 64 THEN r ELSE StepLoop[i + 1, Step(i, r, m), m]

\* a0 += a; b0 += b; c0 += c; d0 += d
AddWords(acc, r) ==
  <<WrappingAdd(acc[1], r[1]), WrappingAdd(acc[2], r[2]),
    WrappingAdd(acc[3], r[3]), WrappingAdd(acc[4], r[4])>>

\* One iteration of the loop over the chunks: acc is <<a0, b0, c0, d0>>.
Chunk(chunk, acc) == AddWords(acc, StepLoop[0, acc, Words(chunk)])

\* `for n in (0..buffer.len()).step_by(64)`, entered at offset n with the
\* words acc: its outcome.  The slice &buffer[n..n + 64] panics when fewer
\* than 64 bytes remain.
ChunkLoop[n \in Nat, acc \in Seq(Seq(Nat)), buffer \in Seq(Nat)] ==
  IF n >= Len(buffer) THEN Ok(acc)
  ELSE IF n + 64 > Len(buffer) THEN Panic
  ELSE ChunkLoop[n + 64, Chunk(SubSeq(buffer, n + 1, n + 64), acc), buffer]

Chunks(buffer, a0, b0, c0, d0) == ChunkLoop[0, <<a0, b0, c0, d0>>, buffer]

\* The returned u128: the four words, each through to_be, a0 in the top 32
\* bits (the shifted words do not overlap, so `+` joins them).
Pack(acc) ==
  to_be(acc[1]) \o to_be(acc[2]) \o to_be(acc[3]) \o to_be(acc[4])

\* The return statement, reached when no slice has panicked.
Return(r) == IF r.ok THEN Ok(Pack(r.val)) ELSE Panic

calculate_chunks(buffer, a0, b0, c0, d0) ==
  Return(Chunks(buffer, a0, b0, c0, d0))

(***************************************************************************)
(* u64 and usize arithmetic, on four 16-bit limbs, least significant first.*)
(* Each operation yields the wrapped result and whether it overflowed; a   *)
(* build with overflow checks (the dev and test profiles) panics on        *)
(* overflow, a build without them (the release profile) keeps the wrapped  *)
(* result.                                                                 *)
(***************************************************************************)
\* A length below 2^31 as a u64 / usize.
Limbs(n) == <<n % 65536, n \div 65536, 0, 0>>

\* The number a u64 / usize stands for, when it is below 2^31.
Small(v) == v[3] = 0 /\ v[4] = 0 /\ v[2] < 32768
Number(v) == (v[2] * 65536) + v[1]

Add64(v, w) ==
  LET s1 == v[1] + w[1]
      s2 == v[2] + w[2] + (s1 \div 65536)
      s3 == v[3] + w[3] + (s2 \div 65536)
      s4 == v[4] + w[4] + (s3 \div 65536)
  IN  [val |-> <<s1 % 65536, s2 % 65536, s3 % 65536, s4 % 65536>>,
       overflow |-> s4 >= 65536]

Sub64(v, w) ==
  LET d1 == v[1] - w[1]
      d2 == v[2] - w[2] - (IF d1 < 0 THEN 1 ELSE 0)
      d3 == v[3] - w[3] - (IF d2 < 0 THEN 1 ELSE 0)
      d4 == v[4] - w[4] - (IF d3 < 0 THEN 1 ELSE 0)
  IN  [val |-> <<d1 % 65536, d2 % 65536, d3 % 65536, d4 % 65536>>,
       overflow |-> d4 < 0]

Mul64(v, k) ==
  LET p1 == v[1] * k
      p2 == (v[2] * k) + (p1 \div 65536)
      p3 == (v[3] * k) + (p2 \div 65536)
      p4 == (v[4] * k) + (p3 \div 65536)
  IN  [val |-> <<p1 % 65536, p2 % 65536, p3 % 65536, p4 % 65536>>,
       overflow |-> p4 >= 65536]

\* The outcome of an arithmetic operator of the language on r.
Arith(r, overflow_checks) ==
  IF r.overflow /\ overflow_checks THEN Panic ELSE Ok(r.val)

(***************************************************************************)
(* Preprocessor.                                                           *)
(***************************************************************************)
u64_to_vector_u8_be(value) ==
  <<value[1] % 256, value[1] \div 256, value[2] % 256, value[2] \div 256,
    value[3] % 256, value[3] \div 256, value[4] % 256, value[4] \div 256>>

\* vec![0 as u8; n] for a usize n: a capacity above isize::MAX panics.
Zeros(n) ==
  IF n[4] >= 32768 THEN Panic
  ELSE IF ~Small(n) THEN Panic \* the allocation of 2^31 bytes or more fails
  ELSE Ok([k \in 1..Number(n) |-> 0])

\* preprocess that pushes n_bytes_to_push zeros (not n_bytes_to_push - 1)
\* after the byte 0x80.
preprocess_one_more(input, original_length_in_bits, overflow_checks) ==
  LET sub == Arith(Sub64(Limbs(56), Limbs(Len(input) % 64)), overflow_checks)
      n_bytes_to_push ==
        IF sub.val = Limbs(0)
          THEN Add64(Limbs(64), sub.val).val
          ELSE sub.val
      bytes_to_push == Zeros(n_bytes_to_push)
  IN  IF ~sub.ok THEN Panic
      ELSE IF ~bytes_to_push.ok THEN Panic
      ELSE Ok(input \o <<128>> \o bytes_to_push.val
                \o u64_to_vector_u8_be(original_length_in_bits))

preprocess(input, original_length_in_bits, overflow_checks) ==
  LET sub == Arith(Sub64(Limbs(56), Limbs(Len(input) % 64)), overflow_checks)
      \* `n_bytes_to_push <= 0` on a usize is `n_bytes_to_push == 0`.
      n_bytes_to_push ==
        IF sub.val = Limbs(0)
          THEN Add64(Limbs(64), sub.val).val
          ELSE sub.val
      \* n_bytes_to_push is not 0 here, so the subtraction cannot overflow.
      bytes_to_push == Zeros(Sub64(n_bytes_to_push, Limbs(1)).val)
  IN  IF ~sub.ok THEN Panic
      ELSE IF ~bytes_to_push.ok THEN Panic
      ELSE Ok(input \o <<128>> \o bytes_to_push.val
                \o u64_to_vector_u8_be(original_length_in_bits))

(***************************************************************************)
(* The Md5 value and its methods.  A method of `&self` yields the receiver *)
(* after the call (self), what it returns or that it panics (ret), and the *)
(* lengths of the buffers it handed to calculate_chunks, in order (core).  *)
(***************************************************************************)
new ==
  [buffer |-> <<>>,
   length |-> Limbs(0),
   a0 |-> <<\H6745, \H2301>>,
   b0 |-> <<\Hefcd, \Hab89>>,
   c0 |-> <<\H98ba, \Hdcfe>>,
   d0 |-> <<\H1032, \H5476>>]

\* ((digested >> shift) & 0xffffffff).try_into().unwrap(): the mask leaves 32
\* bits, so the conversion to u32 succeeds.
ShiftMask(digested, shift) ==
  <<digested[7 - (shift \div 16)], digested[8 - (shift \div 16)]>>

\* The unpacking without to_be: the words stay in the order of the u128.
UnpackNative(digested) ==
  <<ShiftMask(digested, 96), ShiftMask(digested, 64),
    ShiftMask(digested, 32), ShiftMask(digested, 0)>>

\* The body of consume's loop after the call: the next a0, b0, c0, d0.
Unpack(digested) ==
  <<to_be(ShiftMask(digested, 96)), to_be(ShiftMask(digested, 64)),
    to_be(ShiftMask(digested, 32)), to_be(ShiftMask(digested, 0))>>

\* The loop condition with `>` for `>=`: a buffer of exactly 64 bytes stays.
LoopConditionAbove(buffer) == Len(buffer) > 64

\* The condition of consume's loop.
LoopCondition(buffer) == Len(buffer) >= 64

\* `while buffer.len() >= 64`, entered with the locals buffer and
\* acc = <<a0, b0, c0, d0>>: the locals after the loop.  &buffer[..64] is 64
\* bytes long, so calculate_chunks returns.
WhileLoop[buffer \in Seq(Nat), acc \in Seq(Seq(Nat)), core \in Seq(Nat)] ==
  IF LoopCondition(buffer)
    THEN WhileLoop[SubSeq(buffer, 65, Len(buffer)),
                   Unpack(calculate_chunks(SubSeq(buffer, 1, 64),
                                           acc[1], acc[2], acc[3], acc[4]).val),
                   Append(core, Len(SubSeq(buffer, 1, 64)))]
    ELSE [buffer |-> buffer, acc |-> acc, core |-> core]

\* The struct expression that consume returns, from the locals w after the
\* loop; `self.length + (data.len() as u64)` is length.
Returned(self, w, length) ==
  [self |-> self,
   core |-> w.core,
   ret |-> IF length.ok
             THEN [ok |-> TRUE,
                   val |-> [buffer |-> w.buffer, length |-> length.val,
                            a0 |-> w.acc[1], b0 |-> w.acc[2],
                            c0 |-> w.acc[3], d0 |-> w.acc[4]]]
             ELSE [ok |-> FALSE, val |-> self]]

consume(self, data, overflow_checks) ==
  Returned(self,
           WhileLoop[self.buffer \o data,
                     <<self.a0, self.b0, self.c0, self.d0>>, <<>>],
           Arith(Add64(self.length, Limbs(Len(data))), overflow_checks))

\* The call calculate_chunks(&preprocessed, a0, b0, c0, d0) with acc =
\* <<a0, b0, c0, d0>>, where preprocess(input, bits) has come to out.  The
\* call of preprocess is kept beside the result.
Hash(input, bits, out, acc) ==
  [preprocess |-> {[input |-> input, bits |-> bits, out |-> out]},
   core |-> IF out.ok THEN <<Len(out.val)>> ELSE <<>>,
   ret |-> IF out.ok
             THEN calculate_chunks(out.val, acc[1], acc[2], acc[3], acc[4])
             ELSE Panic]

\* The body of digest and of calculate: bits is the outcome of the product
\* that gives the length in bits.
Finish(input, bits, acc, overflow_checks) ==
  IF bits.ok
    THEN Hash(input, bits.val, preprocess(input, bits.val, overflow_checks),
              acc)
    ELSE [preprocess |-> {}, core |-> <<>>, ret |-> Panic]

\* A digest that finalizes in place: it takes the buffer out of the receiver.
Finalized(self, r) ==
  [self |-> [self EXCEPT !.buffer = <<>>], preprocess |-> r.preprocess,
   core |-> r.core, ret |-> r.ret]

\* A method of `&self`: the receiver is borrowed and not written.
Borrowed(self, r) ==
  [self |-> self, preprocess |-> r.preprocess, core |-> r.core,
   ret |-> r.ret]

digest(self, overflow_checks) ==
  Borrowed(self,
           Finish(self.buffer,
                  Arith(Mul64(self.length, 8), overflow_checks),
                  <<self.a0, self.b0, self.c0, self.d0>>,
                  overflow_checks))

\* (input.len() * 8).try_into().unwrap(): usize to u64 always succeeds.
calculate(input, overflow_checks) ==
  Finish(input,
         Arith(Mul64(Limbs(Len(input)), 8), overflow_checks),
         <<<<\H6745, \H2301>>, <<\Hefcd, \Hab89>>,
           <<\H98ba, \Hdcfe>>, <<\H1032, \H5476>>>>,
         overflow_checks)

\* consume on a chunk too long to write out, n bytes fill (n a usize of 2^31
\* or more), where the loop comes to the words acc: see SpecLong below.
consume_long(self, n, fill, acc, overflow_checks) ==
  Returned(self,
           [buffer |-> [k \in 1..((Len(self.buffer) + n[1]) % 64) |-> fill],
            acc |-> acc,
            core |-> <<64>>],
           Arith(Add64(self.length, n), overflow_checks))

(***************************************************************************)
(* Inputs.                                                                 *)
(***************************************************************************)
\* The most calls of consume in one run, and the longest message.
MaxCalls == 2
MaxTotal == 192

\* b"hello" and b"world"
Hello == <<104, 101, 108, 108, 111>>
World == <<119, 111, 114, 108, 100>>

\* b"Lorem ipsum dolor sit amet, consectetur adipiscing odio."
Lorem56 ==
  <<
    76, 111, 114, 101, 109, 32, 105, 112, 115, 117, 109, 32, 100, 111, 108,
    111, 114, 32, 115, 105, 116, 32, 97, 109, 101, 116, 44, 32, 99, 111,
    110, 115, 101, 99, 116, 101, 116, 117, 114, 32, 97, 100, 105, 112, 105,
    115, 99, 105, 110, 103, 32, 111, 100, 105, 111, 46
  >>

\* b"Lorem ipsum dolor sit amet, consectetur adipiscing elit aliquam."
Lorem64 ==
  <<
    76, 111, 114, 101, 109, 32, 105, 112, 115, 117, 109, 32, 100, 111, 108,
    111, 114, 32, 115, 105, 116, 32, 97, 109, 101, 116, 44, 32, 99, 111,
    110, 115, 101, 99, 116, 101, 116, 117, 114, 32, 97, 100, 105, 112, 105,
    115, 99, 105, 110, 103, 32, 101, 108, 105, 116, 32, 97, 108, 105, 113,
    117, 97, 109, 46
  >>

\* n bytes b'a'
Fill(n) == [k \in 1..n |-> 97]

\* The chunks a caller passes to consume.
Data ==
  {<<>>, Hello, World, Lorem56, Lorem64, Fill(1), Fill(55), Fill(63), Fill(129)}

(***************************************************************************)
(* The program: one thread that holds a Md5 value and calls its methods.   *)
(***************************************************************************)
VARIABLES
  overflow_checks, \* the build panics on integer overflow (else it wraps)
  md5,             \* the caller's Md5 value
  receiver,        \* {the receiver of the last method call, after the call}
  msg,             \* the bytes passed to consume so far, in order
  total,           \* the number of bytes passed to consume so far (6 limbs)
  calls,           \* the number of calls of consume so far
  last,            \* the last call: "new", "consume", "digest", "calculate"
  result,          \* {what digest returned on md5}, {} before the call
  oneshot,         \* {what calculate(msg) returned}, {} before the call
  preprocessed,    \* {the call of preprocess in the last digest/calculate}
  core,            \* lengths of the buffers the last call gave calculate_chunks
  panicked         \* a call has panicked: the thread is gone

vars ==
  <<overflow_checks, md5, receiver, msg, total, calls, last, result, oneshot,
    preprocessed, core, panicked>>

\* Numbers of six limbs, for the count of all bytes: v + w and v * k.
Wide(v) == v \o <<0, 0>>

AddWide(v, w) ==
  LET s1 == v[1] + w[1]
      s2 == v[2] + w[2] + (s1 \div 65536)
      s3 == v[3] + w[3] + (s2 \div 65536)
      s4 == v[4] + w[4] + (s3 \div 65536)
      s5 == v[5] + w[5] + (s4 \div 65536)
      s6 == v[6] + w[6] + (s5 \div 65536)
  IN  <<s1 % 65536, s2 % 65536, s3 % 65536, s4 % 65536, s5 % 65536,
        s6 % 65536>>

MulWide(v, k) ==
  LET p1 == v[1] * k
      p2 == (v[2] * k) + (p1 \div 65536)
      p3 == (v[3] * k) + (p2 \div 65536)
      p4 == (v[4] * k) + (p3 \div 65536)
      p5 == (v[5] * k) + (p4 \div 65536)
      p6 == (v[6] * k) + (p5 \div 65536)
  IN  <<p1 % 65536, p2 % 65536, p3 % 65536, p4 % 65536, p5 % 65536,
        p6 % 65536>>

Init ==
  /\ overflow_checks \in BOOLEAN
  /\ md5 = new
  /\ receiver = {}
  /\ msg = <<>>
  /\ total = Wide(Limbs(0))
  /\ calls = 0
  /\ last = "new"
  /\ result = {}
  /\ oneshot = {}
  /\ preprocessed = {}
  /\ core = <<>>
  /\ panicked = FALSE

\* md5 = md5.consume(data), where the call comes to r
ConsumeCall(r) ==
  /\ md5' = r.ret.val
  /\ receiver' = {r.self}
  /\ core' = r.core
  /\ panicked' = ~r.ret.ok

Consume(data) ==
  /\ ~panicked
  /\ calls < MaxCalls
  /\ Len(msg) + Len(data) <= MaxTotal
  /\ ConsumeCall(consume(md5, data, overflow_checks))
  /\ msg' = msg \o data
  /\ total' = AddWide(total, Wide(Limbs(Len(data))))
  /\ calls' = calls + 1
  /\ last' = "consume"
  /\ result' = {}
  /\ oneshot' = {}
  /\ preprocessed' = {}
  /\ UNCHANGED overflow_checks

\* md5.digest(), where the call comes to r
DigestCall(r) ==
  /\ md5' = r.self
  /\ receiver' = {r.self}
  /\ result' = {r.ret}
  /\ preprocessed' = r.preprocess
  /\ core' = r.core
  /\ panicked' = ~r.ret.ok

Digest ==
  /\ ~panicked
  /\ result = {}
  /\ DigestCall(digest(md5, overflow_checks))
  /\ last' = "digest"
  /\ UNCHANGED <<overflow_checks, msg, total, calls, oneshot>>

\* Md5::calculate(msg), the one-shot digest of the bytes consumed so far,
\* where the call comes to r
CalculateCall(r) ==
  /\ oneshot' = {r.ret}
  /\ preprocessed' = r.preprocess
  /\ core' = r.core
  /\ panicked' = ~r.ret.ok

Calculate ==
  /\ ~panicked
  /\ oneshot = {}
  /\ CalculateCall(calculate(msg, overflow_checks))
  /\ last' = "calculate"
  /\ UNCHANGED <<overflow_checks, md5, receiver, msg, total, calls, result>>

Next ==
  \/ \E data \in Data : Consume(data)
  \/ Digest
  \/ Calculate

Spec == Init /\ [][Next]_vars

(***************************************************************************)
(* Long messages.  A chunk of 2^31 bytes or more is not built as a         *)
(* sequence: it is n copies of the byte fill, n a usize.  consume folds    *)
(* every full block of self.buffer ++ data and keeps the rest, which is    *)
(* the last (len mod 64) bytes, all of them fill; the words that 2^25      *)
(* blocks or more fold to are not computed, they are any words of          *)
(* SomeWords.  The counter is computed as consume computes it.             *)
(***************************************************************************)
\* Lengths of long chunks: 2^60, 2^61 - 64, 2^61, 2^63 - 64 (a slice holds at
\* most isize::MAX = 2^63 - 1 bytes).
LongLengths ==
  {<<0, 0, 0, \H1000>>, <<\Hffc0, \Hffff, \Hffff, \H1fff>>,
   <<0, 0, 0, \H2000>>, <<\Hffc0, \Hffff, \Hffff, \H7fff>>}

SomeWords ==
  {<<new.a0, new.b0, new.c0, new.d0>>,
   <<<<0, 0>>, <<0, 0>>, <<0, 0>>, <<0, 0>>>>,
   <<<<\Hffff, \Hffff>>, <<\Hffff, \Hffff>>, <<\Hffff, \Hffff>>,
     <<\Hffff, \Hffff>>>>}

\* Short chunks between the long ones.
ShortData == {Hello, Fill(1)}

ConsumeLong(n, fill, acc) ==
  /\ ~panicked
  /\ calls < MaxCalls
  /\ ConsumeCall(consume_long(md5, n, fill, acc, overflow_checks))
  /\ total' = AddWide(total, Wide(n))
  /\ calls' = calls + 1
  /\ last' = "consume"
  /\ result' = {}
  /\ oneshot' = {}
  /\ preprocessed' = {}
  /\ UNCHANGED <<overflow_checks, msg>>

NextLong ==
  \/ \E n \in LongLengths, acc \in SomeWords : ConsumeLong(n, 97, acc)
  \/ \E data \in ShortData : Consume(data)
  \/ Digest

SpecLong == Init /\ [][NextLong]_vars

(***************************************************************************)
(* The digest the specification defines (sections 4.2 and 4.3).            *)
(***************************************************************************)
\* The smallest multiple of 64 that is at least n + 9.
PaddedLength(n) == 64 * ((n + 9 + 63) \div 64)

\* tail, the byte 0x80, zero bytes up to 56 modulo 64, the 8 bytes of bits.
Padded(tail, bits) ==
  tail \o <<128>> \o [k \in 1..(PaddedLength(Len(tail)) - Len(tail) - 9) |-> 0]
       \o u64_to_vector_u8_be(bits)

\* The words of new(), and the words of a Md5 value.
InitialWords == <<new.a0, new.b0, new.c0, new.d0>>
WordsOf(s) == <<s.a0, s.b0, s.c0, s.d0>>

\* The block transform over every block of the padded buffer, from acc, packed.
Transformed(buffer, acc) ==
  Pack(Chunks(buffer, acc[1], acc[2], acc[3], acc[4]).val)

MD5(bytes) == Transformed(Padded(bytes, Limbs(8 * Len(bytes))), InitialWords)

\* 0xd41d8cd98f00b204e9800998ecf8427e, 0xfc5e038d38a57032085441e7fe7010b0,
\* 0x2251013dde7bffaa1780cf66fbbaf4bb, 0xce13701da5de58af48900b63f2da47ca
DigestOfEmpty ==
  <<\Hd41d, \H8cd9, \H8f00, \Hb204, \He980, \H0998, \Hecf8, \H427e>>
DigestOfHelloWorld ==
  <<\Hfc5e, \H038d, \H38a5, \H7032, \H0854, \H41e7, \Hfe70, \H10b0>>
DigestOfLorem56 ==
  <<\H2251, \H013d, \Hde7b, \Hffaa, \H1780, \Hcf66, \Hfbba, \Hf4bb>>
DigestOfLorem64Twice ==
  <<\Hce13, \H701d, \Ha5de, \H58af, \H4890, \H0b63, \Hf2da, \H47ca>>

\* The digests that the tests of the source state.
Known(bytes, value) ==
  /\ bytes = <<>> => value = DigestOfEmpty
  /\ bytes = Hello \o World => value = DigestOfHelloWorld
  /\ bytes = Lorem56 => value = DigestOfLorem56
  /\ bytes = Lorem64 \o Lorem64 => value = DigestOfLorem64Twice

(***************************************************************************)
(* The claims.                                                             *)
(***************************************************************************)
\* C1: calculate(x) returns the MD5 digest of x for every byte sequence x: the
\* digest of sections 4.2 and 4.3, and the values the tests state.
C1_CalculateIsMD5 ==
  \A r \in oneshot : r.ok /\ r.val = MD5(msg) /\ Known(msg, r.val)

\* C2: digest after consuming the chunks x1 .. xn returns the same 128-bit
\* value as calculate on x1 ++ ... ++ xn, for every splitting.
C2_ChunkingEquivalence ==
  \A r \in result :
    r.ok /\ calculate(msg, overflow_checks).ret = r /\ Known(msg, r.val)

\* C3: calculate and digest complete without an error for an input of every
\* length (0, 55, 56, 63, 64, 119, 120, ...).
C3_NoLengthError ==
  \A r \in result \cup oneshot : r.ok

\* C4: preprocess returns, for a tail of n bytes, a buffer of PaddedLength(n)
\* bytes: the tail, 0x80, zero bytes, then 8 length bytes.
C4_PreprocessLayout ==
  \A c \in preprocessed :
    /\ c.out.ok
    /\ Len(c.out.val) = PaddedLength(Len(c.input))
    /\ SubSeq(c.out.val, 1, Len(c.out.val) - 8)
         = SubSeq(Padded(c.input, c.bits), 1, PaddedLength(Len(c.input)) - 8)

\* C5: after every consume the buffer holds between 0 and 63 bytes.
C5_BufferBelow64 ==
  Len(md5.buffer) \in 0..63

C5_Witness ==
  /\ calls > 0
  /\ Len(msg) > 128
  /\ Len(md5.buffer) > 0

\* C6: digest and consume leave the value they are applied to as it was (its
\* words, buffer and length), so the caller's value after digest is the value
\* before it.
C6_ReceiverUnchanged ==
  [][/\ last' = "digest" => receiver' = {md5} /\ md5' = md5
     /\ last' = "consume" => receiver' = {md5}]_vars

C6_Witness ==
  /\ last = "digest"
  /\ calls > 0
  /\ Len(md5.buffer) > 0
  /\ receiver = {md5}

\* C7: once 8 * (bytes consumed) is 2^64 or more, consume and digest raise no
\* error: the counter is the count modulo 2^64 and the 8 length bytes that
\* preprocess appends encode 8 * (bytes consumed) modulo 2^64.
C7_LengthWrapsSilently ==
  (MulWide(total, 8)[5] > 0 \/ MulWide(total, 8)[6] > 0) =>
    /\ ~panicked
    /\ md5.length = SubSeq(total, 1, 4)
    /\ last = "digest" =>
         \E c \in preprocessed :
           /\ c.out.ok
           /\ SubSeq(c.out.val, Len(c.out.val) - 7, Len(c.out.val))
                = u64_to_vector_u8_be(SubSeq(MulWide(total, 8), 1, 4))

\* C8: digest pads the bytes left in the buffer, writes 8 * (bytes consumed
\* since new()) as the length field, and runs the padded buffer through the
\* compression core from the current words of the state.
C8_DigestPadsBufferWithTotalLength ==
  last = "digest" =>
    /\ preprocessed # {}
    /\ \A c \in preprocessed : c.input = md5.buffer /\ c.out.ok
    /\ result =
         {Ok(Transformed(Padded(md5.buffer, Limbs(8 * Len(msg))), WordsOf(md5)))}

\* C9: after the chunks of a message msg of n bytes, however split: the length
\* is n, the buffer is the last n mod 64 bytes of msg, and the words are what
\* the compression core gives in one call from the words of new() on the
\* first 64 * (n div 64) bytes of msg.
C9_StateIsFunctionOfMessage ==
  /\ md5.length = Limbs(Len(msg))
  /\ md5.buffer = SubSeq(msg, (64 * (Len(msg) \div 64)) + 1, Len(msg))
  /\ Ok(WordsOf(md5))
       = Chunks(SubSeq(msg, 1, 64 * (Len(msg) \div 64)),
                new.a0, new.b0, new.c0, new.d0)

C9_Witness ==
  /\ calls > 1
  /\ Len(msg) > 128
  /\ Len(md5.buffer) > 0
  /\ WordsOf(md5) # InitialWords

\* C10: every buffer given to the compression core has a length that is a
\* multiple of 64.
C10_CoreGetsWholeBlocks ==
  \A k \in 1..Len(core) : core[k] % 64 = 0

C10_Witness ==
  /\ last = "digest"
  /\ calls > 0
  /\ Len(core) = 1
  /\ core[1] = 128

====
